---- MODULE Spec2Model ----
(***************************************************************************)
(* Model of the HUSIN publisher (agent1_core.py) and of its Firestore      *)
(* accessor (firestore_client.py).                                         *)
(*                                                                         *)
(* Text is a sequence of tokens.  A token is either one character that     *)
(* the JSON encoder treats specially (QUOTE, BSLASH, LF, and the non-ASCII *)
(* characters EACUTE and EMDASH, written by their code points) or a run of *)
(* plain printable ASCII characters ("n", "<", "/sites/", ...).            *)
(* Python's None is the value None below, which is no text.                *)
(***************************************************************************)
EXTENDS Integers, Sequences, FiniteSets, TLC

VARIABLES
    env,          \* os.environ as seen by os.getenv: variable name -> text or None
    pc,           \* position of the module / of publish_all
    cur,          \* the logical page publish_all is working on ("none" outside)
    built,        \* the HTML string publish_all holds for the current page
    upc,          \* position inside _update_page
    page_id,      \* _update_page's argument page_id
    html,         \* _update_page's argument html
    request,      \* the request handed to requests.put and not yet answered
    resp,         \* the last outcome of requests.put (response or exception)
    propagated,   \* the exception that left _update_page, or None
    printed,      \* the lines the last step printed
    logCount,     \* how many lines of each kind have been printed so far
    trace,        \* build / call / put / end events so far, in order
    firebase_apps,\* firebase_admin._apps is non-empty
    initCalls,    \* calls of firebase_admin.initialize_app so far
    constructed,  \* one record per FirestoreClient construction so far
    db            \* the module's _db handle, or None

vars == <<env, pc, cur, built, upc, page_id, html, request, resp, propagated,
          printed, logCount, trace, firebase_apps, initCalls, constructed, db>>

(***************************************************************************)
(* Bounds of the model.                                                    *)
(***************************************************************************)
MaxHtmlLen == 2          \* longest HTML argument tried on _update_page alone
MaxConstructions == 4    \* FirestoreClient constructions in one process

(***************************************************************************)
(* Python values.                                                          *)
(***************************************************************************)
None == <<"#None">>
Empty == <<>>
QUOTE == "\""
BSLASH == "\\"
LF == "\n"
EACUTE == "U+00E9"
EMDASH == "U+2014"

\* bool(v) for a value that is None or a str
Truthy(v) == v # None /\ v # Empty

\* f"{v}"
Format(v) == IF v = None THEN <<"None">> ELSE v

\* os.getenv(name, default)
GetenvDefault(e, name, default) == IF e[name] = None THEN default ELSE e[name]

\* os.getenv(name)
Getenv(e, name) == e[name]

(***************************************************************************)
(* Configuration: the module constants of agent1_core.py, lines 12-32.     *)
(* The process never writes os.environ, so a constant read at import time  *)
(* equals the environment's value at any later time.                       *)
(***************************************************************************)
DefaultApiBase == <<"https://api.systeme.io">>
DefaultServiceAccountPath == <<"/home/HUSINPY/Husin_Network/Keys/service_account.json">>

MandatoryPages == <<"home", "categories", "products", "bundles", "search">>
OptionalPages == <<"contact", "terms", "privacy">>
Pages == MandatoryPages \o OptionalPages

Range(s) == {s[i] : i \in DOMAIN s}

PageIdVar(p) ==
    CASE p = "home"       -> "SYSTEME_HOME_PAGE_ID"
      [] p = "categories" -> "SYSTEME_CATEGORIES_PAGE_ID"
      [] p = "products"   -> "SYSTEME_PRODUCTS_PAGE_ID"
      [] p = "bundles"    -> "SYSTEME_BUNDLES_PAGE_ID"
      [] p = "search"     -> "SYSTEME_SEARCH_PAGE_ID"
      [] p = "contact"    -> "SYSTEME_CONTACT_PAGE_ID"
      [] p = "terms"      -> "SYSTEME_TERMS_PAGE_ID"
      [] p = "privacy"    -> "SYSTEME_PRIVACY_PAGE_ID"

PageIdVars == {PageIdVar(p) : p \in Range(Pages)}
EnvVars == {"SYSTEME_API_KEY", "SYSTEME_API_BASE", "SYSTEME_WEBSITE_ID",
            "SERVICE_ACCOUNT_PATH"} \cup PageIdVars

SERVICE_ACCOUNT_PATH == GetenvDefault(env, "SERVICE_ACCOUNT_PATH", DefaultServiceAccountPath)
SYSTEME_API_KEY == Getenv(env, "SYSTEME_API_KEY")
SYSTEME_API_BASE == GetenvDefault(env, "SYSTEME_API_BASE", DefaultApiBase)
SYSTEME_WEBSITE_ID == Getenv(env, "SYSTEME_WEBSITE_ID")
SYSTEME_PAGE_ID(p) == Getenv(env, PageIdVar(p))

(***************************************************************************)
(* json.dumps on a str (ensure_ascii=True, the default): the quote and the *)
(* backslash get a backslash in front, the line feed becomes \n, and a     *)
(* non-ASCII character becomes \uXXXX.  Plain runs are copied.             *)
(***************************************************************************)
EscapeToken(t) ==
    CASE t = QUOTE  -> <<BSLASH, QUOTE>>
      [] t = BSLASH -> <<BSLASH, BSLASH>>
      [] t = LF     -> <<BSLASH, "n">>
      [] t = EACUTE -> <<BSLASH, "u00e9">>
      [] t = EMDASH -> <<BSLASH, "u2014">>
      [] OTHER      -> <<t>>

RECURSIVE EscapeText(_)
EscapeText(s) ==
    IF s = <<>> THEN <<>> ELSE EscapeToken(Head(s)) \o EscapeText(Tail(s))

\* a slip: the body written with an f-string in place of json.dumps
RawContent(h) ==
    <<"{", QUOTE, "content", QUOTE, ": ", QUOTE>> \o h \o <<QUOTE, "}">>

\* json.dumps({"content": h})
JsonDumpsContent(h) ==
    <<"{", QUOTE, "content", QUOTE, ": ", QUOTE>> \o EscapeText(h) \o <<QUOTE, "}">>

_systeme_headers ==
    ("Content-Type" :> <<"application/json">>) @@ ("X-API-Key" :> SYSTEME_API_KEY)

PageUrl(pid) ==
    Format(SYSTEME_API_BASE) \o <<"/sites/">> \o Format(SYSTEME_WEBSITE_ID)
        \o <<"/pages/">> \o Format(pid)

PutTimeout == 60

PutRequest(pid, h) ==
    [method |-> "PUT", url |-> PageUrl(pid), headers |-> _systeme_headers,
     data |-> JsonDumpsContent(h), timeout |-> PutTimeout]

\* a slip: "if page_id is None" lets the empty string through
SkipsUpdateNoneOnly(pid) == pid = None

\* line 48: if not page_id
SkipsUpdate(pid) == ~Truthy(pid)

\* a slip: the upper limit taken in
IsSuccessUpTo300(status) == status >= 200 /\ status <= 300

\* line 59: resp.status_code >= 200 and resp.status_code < 300
IsSuccess(status) == status >= 200 /\ status < 300

\* a slip: "except requests.Timeout" in place of "except Exception"
CaughtTimeoutOnly(e) == e = "Timeout"

\* a slip: "except requests.ConnectionError" in place of "except Exception"
CaughtConnectionErrorOnly(e) == e = "ConnectionError"

\* line 63: except Exception catches every class derived from Exception
ExceptionClasses == {"Exception", "RequestException", "ConnectionError", "Timeout"}
Caught(e) == e \in ExceptionClasses

\* what requests.put can answer, and what it can raise
StatusCodes == {199, 200, 299, 300}
ResponseBodies == {Empty, <<"Not Found">>}
PutExceptions == {"ConnectionError", "Timeout"}

LogKinds == {"started", "publishing", "skip", "updated", "failed", "error",
             "complete", "finished"}

SkipLine == [kind |-> "skip"]
UpdatedLine(pid) == [kind |-> "updated", page_id |-> pid]
FailedLine(pid, status, text) ==
    [kind |-> "failed", page_id |-> pid, status |-> status, body |-> text]
ErrorLine(pid, e) == [kind |-> "error", page_id |-> pid, exc |-> e]
PlainLine(k) == [kind |-> k]

RECURSIVE Counted(_, _)
Counted(count, lines) ==
    IF lines = <<>> THEN count
    ELSE Counted([count EXCEPT ![Head(lines).kind] = @ + 1], Tail(lines))

\* print(...): the step's lines go to the console
Emit(lines) ==
    /\ printed' = lines
    /\ logCount' = Counted(logCount, lines)

NoResponse == [kind |-> "none"]
NoRequest == [method |-> "none"]

(***************************************************************************)
(* The page builders.  fc, fp, fb are the snippets shop_renderer returns.  *)
(***************************************************************************)
_build_home_page_html(fc, fp, fb) ==
    <<LF, "<div class=", QUOTE, "husin-home", QUOTE, ">", LF,
      "  <section class=", QUOTE, "hero", QUOTE, ">", LF, "    <h1>HUSIN ",
      EMDASH, " Curated Deals in Saudi Arabia</h1>", LF,
      "    <p>Exclusive products, hot offers, and premium bundles. All prices in Saudi Riyal (SAR).</p>",
      LF, "  </section>", LF, LF, "  <section class=", QUOTE,
      "section-block", QUOTE, ">", LF, "    <h2>Featured Categories</h2>",
      LF, "    <div class=", QUOTE, "card-grid", QUOTE, ">", LF, "      ">>
    \o fc
    \o <<LF, "    </div>", LF, "  </section>", LF, LF, "  <section class=",
      QUOTE, "section-block", QUOTE, ">", LF,
      "    <h2>Featured Products</h2>", LF, "    <div class=", QUOTE,
      "card-grid", QUOTE, ">", LF, "      ">>
    \o fp
    \o <<LF, "    </div>", LF, "  </section>", LF, LF, "  <section class=",
      QUOTE, "section-block", QUOTE, ">", LF,
      "    <h2>Featured Bundles</h2>", LF, "    <div class=", QUOTE,
      "card-grid", QUOTE, ">", LF, "      ">>
    \o fb
    \o <<LF, "    </div>", LF, "  </section>", LF, "</div>", LF>>

_build_categories_page_html(fc) ==
    <<LF, "<div class=", QUOTE, "husin-categories", QUOTE, ">", LF,
      "  <h1>All Categories</h1>", LF, "  <div class=", QUOTE, "card-grid",
      QUOTE, ">", LF, "    ">>
    \o fc
    \o <<LF, "  </div>", LF, "</div>", LF>>

_build_products_page_html ==
    <<LF, "<div class=", QUOTE, "husin-products", QUOTE, ">", LF,
      "  <h1>Our Products</h1>", LF,
      "  <p>Browse curated products approved by HUSIN for quality, margin, and reliability.</p>",
      LF, "</div>", LF>>

_build_bundles_page_html(fc) ==
    <<LF, "<div class=", QUOTE, "husin-bundles", QUOTE, ">", LF,
      "  <h1>Bundles</h1>", LF,
      "  <p>Save more with curated product bundles.</p>", LF,
      "  <div class=", QUOTE, "card-grid", QUOTE, ">", LF, "    ">>
    \o fc
    \o <<LF, "  </div>", LF, "</div>", LF>>

_build_search_page_html ==
    <<LF, "<div class=", QUOTE, "husin-search", QUOTE, ">", LF,
      "  <h1>Search Results</h1>", LF, "  <div id=", QUOTE,
      "husin-search-results", QUOTE, ">", LF,
      "    <!-- Agent 1 renders search results server-side if needed -->",
      LF, "  </div>", LF, "</div>", LF>>

_build_static_page_html(title, body) ==
    <<LF, "<div class=", QUOTE, "husin-static", QUOTE, ">", LF, "  <h1>">>
    \o title
    \o <<"</h1>", LF, "  <p>">>
    \o body
    \o <<"</p>", LF, "</div>", LF>>

ContactHtml ==
    _build_static_page_html(<<"Contact">>,
        <<"For inquiries, please reach out via the contact form on this page.">>)
TermsHtml ==
    _build_static_page_html(<<"Terms & Conditions">>,
        <<"These are the terms and conditions for using HUSIN services.">>)
PrivacyHtml ==
    _build_static_page_html(<<"Privacy Policy">>,
        <<"We respect your privacy and handle your data with care.">>)

\* what shop_renderer's functions may return: any HTML text
Snippets == {Empty, <<"<a href=", QUOTE, "/c/1", QUOTE, ">Caf", EACUTE, "</a>">>}

\* the HTML publish_all builds for page p (lines 168, 172, 176, 180, 184, 189-206)
BuildHtml(p, fc, fp, fb) ==
    CASE p = "home"       -> _build_home_page_html(fc, fp, fb)
      [] p = "categories" -> _build_categories_page_html(fc)
      [] p = "products"   -> _build_products_page_html
      [] p = "bundles"    -> _build_bundles_page_html(fc)
      [] p = "search"     -> _build_search_page_html
      [] p = "contact"    -> ContactHtml
      [] p = "terms"      -> TermsHtml
      [] p = "privacy"    -> PrivacyHtml

IndexOf(p) == CHOOSE i \in DOMAIN Pages : Pages[i] = p

\* the statement order of publish_all: the page after p, "none" after the last
NextPage(p) == IF IndexOf(p) = Len(Pages) THEN "none" ELSE Pages[IndexOf(p) + 1]

\* a slip: "is not None" takes the empty string for an identifier
OptionalEnabledNotNone(pid) == pid # None

\* a slip: the test left out, as for the mandatory pages
OptionalEnabledAlways(pid) == TRUE

\* lines 188, 195, 202: if SYSTEME_..._PAGE_ID
OptionalEnabled(pid) == Truthy(pid)

Event(e, p) == [ev |-> e, page |-> p]

(***************************************************************************)
(* _update_page(page_id, html), lines 47-64.                               *)
(***************************************************************************)
\* lines 48-50: no page_id: print the skip line and return
UpdatePageSkip ==
    /\ upc = "entered"
    /\ SkipsUpdate(page_id)
    /\ Emit(<<SkipLine>>)
    /\ upc' = "returned"
    /\ UNCHANGED <<env, pc, cur, built, page_id, html, request, resp, propagated,
                   trace, firebase_apps, initCalls, constructed, db>>

\* lines 52-58: build url and payload and hand the request to requests.put
UpdatePageSend ==
    /\ upc = "entered"
    /\ ~SkipsUpdate(page_id)
    /\ request' = PutRequest(page_id, html)
    /\ trace' = Append(trace, Event("put", cur))
    /\ upc' = "sent"
    /\ Emit(<<>>)
    /\ UNCHANGED <<env, pc, cur, built, page_id, html, resp, propagated,
                   firebase_apps, initCalls, constructed, db>>

\* lines 58-62: requests.put returns a response; print by its status and return
PutResponds ==
    /\ upc = "sent"
    /\ \E status \in StatusCodes, text \in ResponseBodies :
          /\ resp' = [kind |-> "response", status |-> status, text |-> text]
          /\ Emit(IF IsSuccess(status)
                    THEN <<UpdatedLine(page_id)>>
                    ELSE <<FailedLine(page_id, status, text)>>)
    /\ request' = NoRequest
    /\ trace' = Append(trace, Event("end", cur))
    /\ upc' = "returned"
    /\ UNCHANGED <<env, pc, cur, built, page_id, html, propagated,
                   firebase_apps, initCalls, constructed, db>>

\* lines 58, 63-64: requests.put raises; the handler prints the error and the
\* function returns, or the exception is of a class the handler does not catch
PutRaises ==
    /\ upc = "sent"
    /\ \E e \in PutExceptions :
          /\ resp' = [kind |-> "exception", exc |-> e]
          /\ IF Caught(e)
               THEN /\ Emit(<<ErrorLine(page_id, e)>>)
                    /\ upc' = "returned"
                    /\ UNCHANGED propagated
               ELSE /\ Emit(<<>>)
                    /\ upc' = "raised"
                    /\ propagated' = e
    /\ request' = NoRequest
    /\ trace' = Append(trace, Event("end", cur))
    /\ UNCHANGED <<env, pc, cur, built, page_id, html,
                   firebase_apps, initCalls, constructed, db>>

(***************************************************************************)
(* FirestoreClient.__init__(service_account_path), firestore_client.py     *)
(* lines 19-38.  exists is what os.path.exists answers for the path.       *)
(***************************************************************************)
\* lines 21-25: the environment fallback
ResolvePath(arg) ==
    IF ~Truthy(arg)
      THEN GetenvDefault(env, "SERVICE_ACCOUNT_PATH", DefaultServiceAccountPath)
      ELSE arg

\* line 27: not service_account_path or not os.path.exists(service_account_path)
CredentialMissing(path, exists) == ~Truthy(path) \/ ~exists

\* a slip: the guard left out: every construction initializes
NeedsInitializeAlways(apps) == TRUE

\* line 31: if not firebase_admin._apps
NeedsInitialize(apps) == ~apps

ConstructOutcome(arg, exists) ==
    IF CredentialMissing(ResolvePath(arg), exists) THEN "raised"
    ELSE IF NeedsInitialize(firebase_apps) THEN "initialized"
    ELSE "reused"

FirestoreClientInit(arg, exists) ==
    LET outcome == ConstructOutcome(arg, exists) IN
    /\ constructed' = Append(constructed,
           [arg |-> arg, path |-> ResolvePath(arg), exists |-> exists,
            outcome |-> outcome, apps_before |-> firebase_apps,
            calls_before |-> initCalls])
    /\ firebase_apps' = (firebase_apps \/ outcome = "initialized")
    /\ initCalls' = IF outcome = "initialized" THEN initCalls + 1 ELSE initCalls

\* a construction made by any code of the process
Construct ==
    /\ pc = "firestore"
    /\ Len(constructed) < MaxConstructions
    /\ \E arg \in {None, Empty, <<"/srv/a.json">>, <<"/srv/b.json">>},
          exists \in BOOLEAN :
          /\ FirestoreClientInit(arg, exists)
          /\ db' = IF ConstructOutcome(arg, exists) = "raised" THEN db
                   ELSE <<"firestore.client">>
    /\ UNCHANGED <<env, pc, cur, built, upc, page_id, html, request, resp,
                   propagated, printed, logCount, trace>>

(***************************************************************************)
(* Module start of agent1_core.py, lines 34-37.                            *)
(***************************************************************************)
\* a slip: only the API key is tested
EnvOkKeyOnly == Truthy(SYSTEME_API_KEY)

\* line 34: the negation of (not SYSTEME_API_KEY or not SYSTEME_WEBSITE_ID)
EnvOk == Truthy(SYSTEME_API_KEY) /\ Truthy(SYSTEME_WEBSITE_ID)

\* lines 34-35
CheckEnv ==
    /\ pc = "import"
    /\ pc' = IF EnvOk THEN "init_db" ELSE "aborted"
    /\ trace' = Append(trace, Event(IF EnvOk THEN "env_ok" ELSE "env_error", "none"))
    /\ Emit(<<>>)
    /\ UNCHANGED <<env, cur, built, upc, page_id, html, request, resp, propagated,
                   firebase_apps, initCalls, constructed, db>>

\* line 37: _db = FirestoreClient(SERVICE_ACCOUNT_PATH).db
InitDb ==
    /\ pc = "init_db"
    /\ \E exists \in BOOLEAN :
          /\ FirestoreClientInit(SERVICE_ACCOUNT_PATH, exists)
          /\ IF ConstructOutcome(SERVICE_ACCOUNT_PATH, exists) = "raised"
               THEN pc' = "aborted" /\ UNCHANGED db
               ELSE pc' = "main" /\ db' = <<"firestore.client">>
    /\ Emit(<<>>)
    /\ UNCHANGED <<env, cur, built, upc, page_id, html, request, resp, propagated,
                   trace>>

(***************************************************************************)
(* The entry point, lines 212-217, and publish_all, lines 164-209.         *)
(***************************************************************************)
\* lines 213-215 and 165: the two opening lines, then the first page is due
MainStart ==
    /\ pc = "main"
    /\ Emit(<<PlainLine("started"), PlainLine("publishing")>>)
    /\ pc' = "page"
    /\ cur' = Pages[1]
    /\ UNCHANGED <<env, built, upc, page_id, html, request, resp, propagated,
                   trace, firebase_apps, initCalls, constructed, db>>

\* a slip: a page whose request raised is tried again
AdvanceRetrying(p) ==
    IF resp.kind = "exception"
      THEN cur' = p /\ pc' = "built"
      ELSE /\ cur' = NextPage(p)
           /\ pc' = IF NextPage(p) = "none" THEN "closing" ELSE "page"

\* after page p: the next page is due, or the closing line is
Advance(p) ==
    /\ cur' = NextPage(p)
    /\ pc' = IF NextPage(p) = "none" THEN "closing" ELSE "page"

\* lines 168, 172, 176, 180, 184: build a mandatory page's HTML
BuildMandatory ==
    /\ pc = "page"
    /\ cur \in Range(MandatoryPages)
    /\ \E fc \in Snippets, fp \in Snippets, fb \in Snippets :
          built' = BuildHtml(cur, fc, fp, fb)
    /\ trace' = Append(trace, Event("build", cur))
    /\ pc' = "built"
    /\ Emit(<<>>)
    /\ UNCHANGED <<env, cur, upc, page_id, html, request, resp, propagated,
                   firebase_apps, initCalls, constructed, db>>

\* lines 188-192, 195-199, 202-206: the identifier is set: build the static page
BuildOptional ==
    /\ pc = "page"
    /\ cur \in Range(OptionalPages)
    /\ OptionalEnabled(SYSTEME_PAGE_ID(cur))
    /\ built' = BuildHtml(cur, Empty, Empty, Empty)
    /\ trace' = Append(trace, Event("build", cur))
    /\ pc' = "built"
    /\ Emit(<<>>)
    /\ UNCHANGED <<env, cur, upc, page_id, html, request, resp, propagated,
                   firebase_apps, initCalls, constructed, db>>

\* lines 188, 195, 202: the identifier is not set: nothing is done for the page
SkipOptional ==
    /\ pc = "page"
    /\ cur \in Range(OptionalPages)
    /\ ~OptionalEnabled(SYSTEME_PAGE_ID(cur))
    /\ Advance(cur)
    /\ Emit(<<>>)
    /\ UNCHANGED <<env, built, upc, page_id, html, request, resp, propagated,
                   trace, firebase_apps, initCalls, constructed, db>>

\* lines 169, 173, 177, 181, 185, 193, 200, 207: _update_page(ID, html)
CallUpdatePage ==
    /\ pc = "built"
    /\ upc = "idle"
    /\ page_id' = SYSTEME_PAGE_ID(cur)
    /\ html' = built
    /\ upc' = "entered"
    /\ pc' = "in_update"
    /\ trace' = Append(trace, Event("call", cur))
    /\ Emit(<<>>)
    /\ UNCHANGED <<env, cur, built, request, resp, propagated,
                   firebase_apps, initCalls, constructed, db>>

\* _update_page is over: publish_all goes on with the next statement, or the
\* exception that left _update_page leaves publish_all and the process too
ReturnToPublish ==
    /\ pc = "in_update"
    /\ upc \in {"returned", "raised"}
    /\ IF upc = "returned"
         THEN Advance(cur)
         ELSE pc' = "crashed" /\ cur' = "none"
    /\ upc' = "idle"
    /\ page_id' = None
    /\ html' = None
    /\ built' = None
    /\ resp' = NoResponse
    /\ Emit(<<>>)
    /\ UNCHANGED <<env, request, propagated, trace,
                   firebase_apps, initCalls, constructed, db>>

\* line 209: the closing line; publish_all returns
PublishComplete ==
    /\ pc = "closing"
    /\ Emit(<<PlainLine("complete")>>)
    /\ pc' = "published"
    /\ UNCHANGED <<env, cur, built, upc, page_id, html, request, resp, propagated,
                   trace, firebase_apps, initCalls, constructed, db>>

\* lines 216-217: the elapsed time is printed and the process ends
MainFinish ==
    /\ pc = "published"
    /\ Emit(<<PlainLine("finished")>>)
    /\ pc' = "exit"
    /\ UNCHANGED <<env, cur, built, upc, page_id, html, request, resp, propagated,
                   trace, firebase_apps, initCalls, constructed, db>>

(***************************************************************************)
(* Initial states and specifications.                                      *)
(***************************************************************************)
IdOf(p) == <<"pg-" \o p>>

PageOfVar(v) == CHOOSE p \in Range(Pages) : PageIdVar(p) = v

\* an environment variable of a page is unset, set to the empty string, or set;
\* the empty string is tried on the optional pages, whose identifiers
\* publish_all tests itself (_update_page alone is run on it as well, below)
PageSettings(p) ==
    IF p \in Range(OptionalPages) THEN {"unset", "empty", "set"} ELSE {"unset", "set"}

PageValue(p, setting) ==
    CASE setting = "unset" -> None
      [] setting = "empty" -> Empty
      [] setting = "set"   -> IdOf(p)

EnvOf(key, site, base, path, setting) ==
    [v \in EnvVars |->
        CASE v = "SYSTEME_API_KEY"      -> key
          [] v = "SYSTEME_WEBSITE_ID"   -> site
          [] v = "SYSTEME_API_BASE"     -> base
          [] v = "SERVICE_ACCOUNT_PATH" -> path
          [] OTHER -> PageValue(PageOfVar(v), setting[PageOfVar(v)])]

\* what the environment may hold
Environments ==
    {EnvOf(key, site, None, path, setting) :
        key \in {None, Empty, <<"key-1">>},
        site \in {None, Empty, <<"site-1">>},
        path \in {None, Empty},
        setting \in {f \in [Range(Pages) -> {"unset", "empty", "set"}] :
                        \A p \in Range(Pages) : f[p] \in PageSettings(p)}}

InitRest ==
    /\ cur = "none"
    /\ built = None
    /\ request = NoRequest
    /\ resp = NoResponse
    /\ propagated = None
    /\ printed = <<>>
    /\ logCount = [k \in LogKinds |-> 0]
    /\ trace = <<>>
    /\ firebase_apps = FALSE
    /\ initCalls = 0
    /\ constructed = <<>>
    /\ db = None

\* the process runs agent1_core.py as a script
Init ==
    /\ env \in Environments
    /\ pc = "import"
    /\ upc = "idle"
    /\ page_id = None
    /\ html = None
    /\ InitRest

Next ==
    \/ CheckEnv
    \/ InitDb
    \/ MainStart
    \/ BuildMandatory
    \/ BuildOptional
    \/ SkipOptional
    \/ CallUpdatePage
    \/ UpdatePageSkip
    \/ UpdatePageSend
    \/ PutResponds
    \/ PutRaises
    \/ ReturnToPublish
    \/ PublishComplete
    \/ MainFinish

Spec == Init /\ [][Next]_vars

\* the interpreter runs the script on: a step that can be taken is taken
\* (requests.put answers or raises within its timeout)
FairSpec == Spec /\ WF_vars(Next)

(***************************************************************************)
(* _update_page on its own: one call with any page_id and any html.        *)
(***************************************************************************)
HtmlTokens == {"n", "<", QUOTE, BSLASH, LF, EACUTE}

Texts(n) == UNION {[1..k -> HtmlTokens] : k \in 0..n}

PageIdArguments == {None, Empty, <<"pg-1">>, <<"a/b c">>}

InitUpdatePage ==
    /\ env \in {EnvOf(<<"key-1">>, <<"site-1">>, base, None,
                      [p \in Range(Pages) |-> "unset"]) :
                   base \in {None, <<"http://localhost:8080/api">>}}
    /\ pc = "caller"
    /\ upc = "entered"
    /\ page_id \in PageIdArguments
    /\ html \in Texts(MaxHtmlLen)
    /\ InitRest

NextUpdatePage ==
    \/ UpdatePageSkip
    \/ UpdatePageSend
    \/ PutResponds
    \/ PutRaises

SpecUpdatePage == InitUpdatePage /\ [][NextUpdatePage]_vars

(***************************************************************************)
(* FirestoreClient on its own: any sequence of constructions in a process. *)
(***************************************************************************)
InitFirestore ==
    /\ env \in {EnvOf(None, None, None, path, [p \in Range(Pages) |-> "unset"]) :
                   path \in {None, Empty, <<"/srv/a.json">>}}
    /\ pc = "firestore"
    /\ upc = "idle"
    /\ page_id = None
    /\ html = None
    /\ InitRest

NextFirestore == Construct

SpecFirestore == InitFirestore /\ [][NextFirestore]_vars

(***************************************************************************)
(* Reading the events and the lines.                                       *)
(***************************************************************************)
Count(e, p) == Cardinality({i \in DOMAIN trace : trace[i] = Event(e, p)})
PutsSent == Cardinality({i \in DOMAIN trace : trace[i].ev = "put"})

(***************************************************************************)
(* A JSON reader for the body: an object of one member whose name and      *)
(* value are strings (RFC 8259: in a string the quote, the backslash and   *)
(* the control characters are written escaped).                            *)
(***************************************************************************)
Escapes == {QUOTE, BSLASH, "n", "u00e9", "u2014"}

Unescaped(c) ==
    CASE c = QUOTE   -> QUOTE
      [] c = BSLASH  -> BSLASH
      [] c = "n"     -> LF
      [] c = "u00e9" -> EACUTE
      [] c = "u2014" -> EMDASH

RECURSIVE ReadJsonString(_, _)
\* s follows a string's opening quote; the answer holds the string read and
\* what follows its closing quote
ReadJsonString(s, acc) ==
    IF s = <<>> THEN [ok |-> FALSE, val |-> acc, rest |-> <<>>]
    ELSE IF Head(s) = QUOTE THEN [ok |-> TRUE, val |-> acc, rest |-> Tail(s)]
    ELSE IF Head(s) = LF THEN [ok |-> FALSE, val |-> acc, rest |-> s]
    ELSE IF Head(s) = BSLASH
      THEN IF Len(s) >= 2 /\ s[2] \in Escapes
             THEN ReadJsonString(Tail(Tail(s)), Append(acc, Unescaped(s[2])))
             ELSE [ok |-> FALSE, val |-> acc, rest |-> s]
    ELSE ReadJsonString(Tail(s), Append(acc, Head(s)))

NotJson == [ok |-> FALSE, name |-> <<>>, value |-> <<>>]

ReadJsonObject(d) ==
    IF Len(d) < 2 \/ d[1] # "{" \/ d[2] # QUOTE THEN NotJson
    ELSE LET name == ReadJsonString(Tail(Tail(d)), <<>>) IN
         IF ~name.ok \/ Len(name.rest) < 2 \/ name.rest[1] # ": "
               \/ name.rest[2] # QUOTE
           THEN NotJson
           ELSE LET value == ReadJsonString(Tail(Tail(name.rest)), <<>>) IN
                IF value.ok /\ value.rest = <<"}">>
                  THEN [ok |-> TRUE, name |-> name.val, value |-> value.val]
                  ELSE NotJson

(***************************************************************************)
(* Claims about _update_page, checked under SpecUpdatePage.                *)
(***************************************************************************)
Falsy(v) == v = None \/ v = Empty

\* C2: a call of _update_page with an empty or None page identifier sends no
\* request, prints the skip line and returns normally, whatever the HTML.
C2_FalsyIdSkips ==
    Falsy(page_id) =>
        /\ upc \in {"entered", "returned"}
        /\ request = NoRequest
        /\ PutsSent = 0
        /\ resp = NoResponse
        /\ propagated = None
        /\ upc = "returned" => printed = <<SkipLine>> /\ logCount["skip"] = 1

C2_Witness ==
    /\ upc = "returned"
    /\ page_id = Empty
    /\ html = <<QUOTE, "<">>
    /\ printed = <<SkipLine>>

\* C3: for a non-empty page identifier a failed request (a non-2xx response
\* or an exception raised by the request) is printed and never leaves
\* _update_page: the function returns normally.
C3_FailuresStayInside ==
    /\ upc # "raised"
    /\ propagated = None
    /\ (~Falsy(page_id) /\ resp.kind = "exception") =>
          /\ upc = "returned"
          /\ printed = <<ErrorLine(page_id, resp.exc)>>
          /\ logCount["error"] = 1
    /\ (~Falsy(page_id) /\ resp.kind = "response"
           /\ ~(resp.status \in 200..299)) =>
          /\ upc = "returned"
          /\ printed = <<FailedLine(page_id, resp.status, resp.text)>>
          /\ logCount["failed"] = 1

C3_Witness ==
    /\ upc = "returned"
    /\ page_id = <<"pg-1">>
    /\ resp.kind = "exception"
    /\ resp.exc = "ConnectionError"
    /\ printed = <<ErrorLine(page_id, "ConnectionError")>>

\* C6: for a non-empty page identifier the request is a PUT to the URL
\* {base}/sites/{website_id}/pages/{page_id}, and its body is the JSON text
\* of an object whose only member is "content" with the given HTML as value.
C6_RequestShape ==
    /\ upc = "sent" <=> request.method # "none"
    /\ request.method # "none" =>
          /\ ~Falsy(page_id)
          /\ request.method = "PUT"
          /\ request.url =
                (IF env["SYSTEME_API_BASE"] = None THEN <<"https://api.systeme.io">>
                 ELSE env["SYSTEME_API_BASE"])
                \o <<"/sites/">> \o env["SYSTEME_WEBSITE_ID"]
                \o <<"/pages/">> \o page_id
          /\ ReadJsonObject(request.data) =
                [ok |-> TRUE, name |-> <<"content">>, value |-> html]

C6_Witness ==
    /\ request.method = "PUT"
    /\ page_id = <<"a/b c">>
    /\ html = <<BSLASH, "n">>
    /\ env["SYSTEME_API_BASE"] # None

\* C7: a response counts as a success exactly when its status is 2xx: the
\* success line is printed iff 200 <= status < 300, and the failure line,
\* with status and body, for every other status.
C7_SuccessIs2xx ==
    resp.kind = "response" =>
        /\ printed = <<UpdatedLine(page_id)>> <=> resp.status \in 200..299
        /\ printed = <<FailedLine(page_id, resp.status, resp.text)>>
              <=> resp.status \notin 200..299
        /\ logCount["updated"] = (IF resp.status \in 200..299 THEN 1 ELSE 0)
        /\ logCount["failed"] = (IF resp.status \in 200..299 THEN 0 ELSE 1)

C7_Witness ==
    /\ resp.kind = "response"
    /\ resp.status = 300
    /\ printed = <<FailedLine(page_id, 300, <<"Not Found">>)>>

(***************************************************************************)
(* Claims about the publish cycle, checked under Spec and FairSpec.        *)
(***************************************************************************)
InPublish == pc \in {"page", "built", "in_update"}
PublishOver == pc \in {"closing", "published", "exit"}

\* publish_all has gone past page p's statements
Past(p) == PublishOver \/ (InPublish /\ IndexOf(cur) > IndexOf(p))

\* C1: every run of publish_all calls _update_page once for each of the five
\* mandatory pages, whatever happened to the pages before (non-2xx answers,
\* exceptions), and for an optional page iff its identifier is configured.
C1_AllPagesAttempted ==
    /\ pc # "crashed"
    /\ \A p \in Range(Pages) :
          Past(p) =>
              Count("call", p) =
                  (IF p \in Range(MandatoryPages) \/ Truthy(SYSTEME_PAGE_ID(p))
                     THEN 1 ELSE 0)

C1_Witness ==
    /\ pc = "exit"
    /\ \A p \in Range(MandatoryPages) : Truthy(SYSTEME_PAGE_ID(p)) /\ Count("call", p) = 1
    /\ logCount["updated"] = 0
    /\ logCount["failed"] >= 2
    /\ logCount["error"] >= 2
    /\ SYSTEME_PAGE_ID("contact") = Empty /\ Count("call", "contact") = 0
    /\ Truthy(SYSTEME_PAGE_ID("privacy")) /\ Count("call", "privacy") = 1

PageEvents == {"build", "call", "put", "end"}
NoPageLogic ==
    /\ \A i \in DOMAIN trace : trace[i].ev \notin PageEvents
    /\ logCount = [k \in LogKinds |-> 0]
    /\ built = None
    /\ request = NoRequest
    /\ upc = "idle"

\* C4: with SYSTEME_API_KEY or SYSTEME_WEBSITE_ID missing or empty, or with
\* no credential file, the start raises and the process ends before any page
\* logic: nothing is built and no PUT is sent; and the environment is tested
\* before the Firestore client is constructed.
C4_StartupAborts ==
    /\ (Falsy(env["SYSTEME_API_KEY"]) \/ Falsy(env["SYSTEME_WEBSITE_ID"])) =>
          /\ pc \in {"import", "aborted"}
          /\ constructed = <<>>
          /\ db = None
          /\ NoPageLogic
    /\ constructed # <<>> =>
          /\ Len(constructed) = 1
          /\ trace[1] = Event("env_ok", "none")
          /\ ~constructed[1].exists =>
                /\ pc = "aborted"
                /\ constructed[1].outcome = "raised"
                /\ db = None
                /\ NoPageLogic
    /\ pc \in {"import", "init_db", "aborted"} => NoPageLogic

C4_Witness ==
    /\ pc = "aborted"
    /\ env["SYSTEME_API_KEY"] = <<"key-1">>
    /\ env["SYSTEME_WEBSITE_ID"] = Empty
    /\ trace = <<Event("env_error", "none")>>

\* C5: once publish_all has started, whatever the page updates do (succeed,
\* fail with a non-2xx status, raise, or are skipped), the closing line
\* "Publish cycle complete" is eventually printed and publish_all returns.
C5_AlwaysCompletes ==
    (logCount["publishing"] = 1) ~>
        (logCount["complete"] = 1 /\ pc \in {"published", "exit"})

C5_Witness ==
    /\ pc = "published"
    /\ printed = <<PlainLine("complete")>>
    /\ logCount["updated"] >= 1
    /\ logCount["failed"] >= 1
    /\ logCount["error"] >= 1
    /\ logCount["skip"] >= 1

\* C9: an optional page (contact, terms, privacy) without an identifier is
\* left out silently: no HTML is built for it, _update_page is not called
\* for it, no request is sent for it, and no skip line is printed for it
\* (the skip lines are those of the mandatory pages without identifier).
C9_OptionalLeftOut ==
    /\ \A p \in Range(OptionalPages) :
          Falsy(SYSTEME_PAGE_ID(p)) =>
              /\ \A e \in PageEvents : Count(e, p) = 0
              /\ cur = p => pc = "page"
    /\ logCount["skip"] <=
          Cardinality({p \in Range(MandatoryPages) :
                          Falsy(SYSTEME_PAGE_ID(p)) /\ Count("call", p) = 1})
    /\ PublishOver =>
          logCount["skip"] =
              Cardinality({p \in Range(MandatoryPages) : Falsy(SYSTEME_PAGE_ID(p))})

C9_Witness ==
    /\ pc = "exit"
    /\ SYSTEME_PAGE_ID("contact") = None
    /\ SYSTEME_PAGE_ID("terms") = Empty
    /\ Truthy(SYSTEME_PAGE_ID("privacy"))
    /\ Count("put", "privacy") = 1
    /\ SYSTEME_PAGE_ID("home") = None
    /\ logCount["skip"] = 1

\* the events of page p, in the order they happened
RECURSIVE EventsOf(_, _)
EventsOf(p, t) ==
    IF t = <<>> THEN <<>>
    ELSE IF Head(t).page = p THEN <<Head(t).ev>> \o EventsOf(p, Tail(t))
    ELSE EventsOf(p, Tail(t))

IsPrefix(a, b) == Len(a) <= Len(b) /\ a = SubSeq(b, 1, Len(a))

\* C10: no retries: at most one PUT per logical page in a cycle, also after
\* a failure; the pages are handled in the order home, categories, products,
\* bundles, search, contact, terms, privacy; and a page's request is
\* answered (response or exception) before the next page's HTML is built.
C10_OnePutPerPageInOrder ==
    /\ \A p \in Range(Pages) :
          /\ Count("put", p) <= 1
          /\ IsPrefix(EventsOf(p, trace), <<"build", "call", "put", "end">>)
                \/ EventsOf(p, trace) = <<"build", "call">>
    /\ \A i \in DOMAIN trace :
          (i < Len(trace) /\ trace[i].ev \in PageEvents) =>
              /\ trace[i + 1].ev \in PageEvents
              /\ IndexOf(trace[i].page) <= IndexOf(trace[i + 1].page)
              /\ trace[i].ev = "put" => trace[i + 1] = Event("end", trace[i].page)
              /\ trace[i + 1].ev = "build" => trace[i].ev \in {"call", "end"}
    /\ pc \in {"page", "built"} => request = NoRequest

C10_Witness ==
    /\ pc = "exit"
    /\ \A p \in Range(Pages) : Count("put", p) = 1
    /\ logCount["error"] = 3
    /\ logCount["failed"] = 3
    /\ logCount["updated"] = 2

(***************************************************************************)
(* Claim about FirestoreClient, checked under SpecFirestore.               *)
(***************************************************************************)
FileThere(c) == Truthy(c.path) /\ c.exists
AppsAfter(i) ==
    IF i = Len(constructed) THEN firebase_apps ELSE constructed[i + 1].apps_before
CallsAfter(i) ==
    IF i = Len(constructed) THEN initCalls ELSE constructed[i + 1].calls_before

\* C8: after any sequence of constructions, initialize_app has been called
\* exactly once, by the first construction whose credential file exists;
\* every later one reuses the app; a construction whose credential file does
\* not exist raises and leaves the initialization state as it was.
C8_InitializedOnce ==
    /\ initCalls <= 1
    /\ initCalls = 1 <=> \E i \in DOMAIN constructed : FileThere(constructed[i])
    /\ firebase_apps <=> initCalls = 1
    /\ \A i \in DOMAIN constructed :
          LET c == constructed[i] IN
          /\ ~FileThere(c) =>
                /\ c.outcome = "raised"
                /\ AppsAfter(i) = c.apps_before
                /\ CallsAfter(i) = c.calls_before
          /\ FileThere(c) =>
                /\ c.outcome =
                      (IF \E k \in 1..(i - 1) : FileThere(constructed[k])
                         THEN "reused" ELSE "initialized")
                /\ AppsAfter(i)
                /\ CallsAfter(i) = 1

C8_Witness ==
    /\ Len(constructed) = 4
    /\ constructed[1].outcome = "raised"
    /\ constructed[2].outcome = "initialized"
    /\ constructed[3].outcome = "raised"
    /\ constructed[4].outcome = "reused"
    /\ initCalls = 1

====
